---- MODULE Spec2Model ----
(***************************************************************************)
(* Model of the data layer of the Elevate-26 landing page:                 *)
(*   src/lib/speakersData.ts  CSV parser, localStorage cache and           *)
(*                            fetchSpeakersFromGoogleSheets                *)
(*   src/lib/soldOutData.ts   parseCSVLine and fetchSoldOutStatus          *)
(*                                                                         *)
(* Text is a sequence of one-character strings, so that the character      *)
(* scanners of the source can be written as they are in the code.  A       *)
(* literal of the source that is never scanned (the bundled speakers) is a *)
(* one-element sequence holding the whole literal.                         *)
(***************************************************************************)
EXTENDS Integers, Sequences, FiniteSets, TLC

VARIABLES
  storage,   \* what the host gives for window / localStorage
  slot,      \* localStorage[CACHE_KEY]
  now,       \* Date.now()
  pc,        \* per call of fetchSpeakersFromGoogleSheets: its suspension point
  force,     \* per call: the forceRefresh argument
  atStart,   \* per call (history): what the slot held when the call began
  reqLog,    \* per call: the URLs passed to fetch(), in order
  respLog,   \* per call: the outcomes of its awaits, in order
  body,      \* per call: the text `await response.text()` gave
  result,    \* per call: the value the promise settled with
  soPc,      \* fetchSoldOutStatus: its suspension point
  soResp,    \* fetchSoldOutStatus: outcome of await fetch()
  soText,    \* fetchSoldOutStatus: the body the endpoint serves
  soResult,  \* fetchSoldOutStatus: the value the promise settled with
  csvPc,     \* parser runs: "idle", "parsed", "reparsed"
  csvCase,   \* parser runs: how the document was put together
  csvDoc,    \* parser runs: the text given to parseCSVData
  csvRows,   \* parser runs: parseCSVData(csvDoc)
  csvOut,    \* parser runs: csvRows written out again with every cell quoted
  csvRows2   \* parser runs: parseCSVData(csvOut)

vars == << storage, slot, now, pc, force, atStart, reqLog, respLog, body, result,
           soPc, soResp, soText, soResult,
           csvPc, csvCase, csvDoc, csvRows, csvOut, csvRows2 >>

speakerVars == << storage, slot, now, pc, force, atStart, reqLog, respLog, body, result >>
soldOutVars == << soPc, soResp, soText, soResult >>
csvVars == << csvPc, csvCase, csvDoc, csvRows, csvOut, csvRows2 >>

----------------------------------------------------------------------------
(* Characters and the String methods the source uses *)

LF == "\n"
CR == "\r"
TAB == "\t"
SP == " "
QUOTE == "\""
COMMA == ","

\* the value of an absent optional field or of an index out of range
undefined == << "<undefined>" >>

\* White space as String.prototype.trim sees it (restricted to the characters used here)
IsWhiteSpace(ch) == ch \in {SP, LF, CR, TAB}

RECURSIVE trimStart(_)
trimStart(s) ==
  IF s = << >> THEN << >>
  ELSE IF IsWhiteSpace(Head(s)) THEN trimStart(Tail(s)) ELSE s

RECURSIVE trimEnd(_)
trimEnd(s) ==
  IF s = << >> THEN << >>
  ELSE IF IsWhiteSpace(s[Len(s)]) THEN trimEnd(SubSeq(s, 1, Len(s) - 1)) ELSE s

trim(s) == trimEnd(trimStart(s))

UpperLetters == << "A","B","C","D","E","F","G","H","I","J","K","L","M",
                   "N","O","P","Q","R","S","T","U","V","W","X","Y","Z" >>
LowerLetters == << "a","b","c","d","e","f","g","h","i","j","k","l","m",
                   "n","o","p","q","r","s","t","u","v","w","x","y","z" >>

toLowerCase(s) ==
  [i \in 1..Len(s) |->
     IF \E k \in 1..Len(UpperLetters) : UpperLetters[k] = s[i]
     THEN LowerLetters[CHOOSE k \in 1..Len(UpperLetters) : UpperLetters[k] = s[i]]
     ELSE s[i]]

toUpperCase(s) ==
  [i \in 1..Len(s) |->
     IF \E k \in 1..Len(LowerLetters) : LowerLetters[k] = s[i]
     THEN UpperLetters[CHOOSE k \in 1..Len(LowerLetters) : LowerLetters[k] = s[i]]
     ELSE s[i]]

\* s.split('\n'): always at least one piece
RECURSIVE splitAcc(_, _, _)
splitAcc(s, sep, piece) ==
  IF s = << >> THEN << piece >>
  ELSE IF Head(s) = sep THEN << piece >> \o splitAcc(Tail(s), sep, << >>)
  ELSE splitAcc(Tail(s), sep, Append(piece, Head(s)))

split(s, sep) == splitAcc(s, sep, << >>)

\* s.replace(/""/g, '"'): leftmost non-overlapping pairs
RECURSIVE replaceDoubledQuotes(_)
replaceDoubledQuotes(s) ==
  IF Len(s) < 2 THEN s
  ELSE IF s[1] = QUOTE /\ s[2] = QUOTE
       THEN << QUOTE >> \o replaceDoubledQuotes(SubSeq(s, 3, Len(s)))
       ELSE << s[1] >> \o replaceDoubledQuotes(Tail(s))

\* s.replace(/\r\n/g, '\n').replace(/\r/g, '\n'): every CR LF and every lone CR becomes one LF
RECURSIVE normalizeLineBreaks(_)
normalizeLineBreaks(s) ==
  IF s = << >> THEN << >>
  ELSE IF s[1] = CR /\ Len(s) >= 2 /\ s[2] = LF
       THEN << LF >> \o normalizeLineBreaks(SubSeq(s, 3, Len(s)))
  ELSE IF s[1] = CR THEN << LF >> \o normalizeLineBreaks(Tail(s))
  ELSE << s[1] >> \o normalizeLineBreaks(Tail(s))

\* s.replace(/\n+/g, ' '): each maximal run of LF becomes one space
RECURSIVE collapseLineFeeds(_)
collapseLineFeeds(s) ==
  IF s = << >> THEN << >>
  ELSE IF s[1] = LF
       THEN IF Len(s) >= 2 /\ s[2] = LF
            THEN collapseLineFeeds(Tail(s))
            ELSE << SP >> \o collapseLineFeeds(Tail(s))
       ELSE << s[1] >> \o collapseLineFeeds(Tail(s))

\* s.slice(1, -1)
sliceOuter(s) == IF Len(s) <= 2 THEN << >> ELSE SubSeq(s, 2, Len(s) - 1)

----------------------------------------------------------------------------
(* src/lib/speakersData.ts: the CSV parser *)

\* the field clean-up of parseCSVLine (the callback of result.map)
cleanField(f) ==
  LET t == trim(f)
      u == IF t # << >> /\ t[1] = QUOTE /\ t[Len(t)] = QUOTE
           THEN replaceDoubledQuotes(sliceOuter(t))
           ELSE t
  IN  trim(collapseLineFeeds(normalizeLineBreaks(u)))

\* the while loop of parseCSVLine, from index i (1-based) on; yields the
\* fields pushed, the last one included
RECURSIVE scanLine(_, _, _, _, _)
scanLine(line, i, current, inQuotes, fields) ==
  IF i > Len(line) THEN Append(fields, trim(current))
  ELSE
    LET char == line[i] IN
    IF char = QUOTE
    THEN IF inQuotes /\ i + 1 <= Len(line) /\ line[i + 1] = QUOTE
         THEN scanLine(line, i + 2, Append(current, QUOTE), inQuotes, fields)
         ELSE scanLine(line, i + 1, current, ~inQuotes, fields)
    ELSE IF char = COMMA /\ ~inQuotes
    THEN scanLine(line, i + 1, << >>, inQuotes, Append(fields, trim(current)))
    ELSE IF char = CR /\ ~inQuotes
    THEN scanLine(line, i + 1, current, inQuotes, fields)
    ELSE IF char = LF /\ ~inQuotes
    THEN Append(fields, trim(current))
    ELSE scanLine(line, i + 1, Append(current, char), inQuotes, fields)

parseCSVLine(line) ==
  LET fields == scanLine(line, 1, << >>, FALSE, << >>)
  IN  [k \in 1..Len(fields) |-> cleanField(fields[k])]

quoteCount(s) == Cardinality({k \in 1..Len(s) : s[k] = QUOTE})

\* the for loop of parseCSVData over rawLines, from index i on; yields the
\* logical lines, the remaining currentLine included when it is not blank
RECURSIVE joinLines(_, _, _, _)
joinLines(rawLines, i, currentLine, lines) ==
  IF i > Len(rawLines)
  THEN IF trim(currentLine) # << >> THEN Append(lines, currentLine) ELSE lines
  ELSE
    LET joined == (IF currentLine # << >> THEN currentLine \o << LF >> ELSE << >>)
                    \o rawLines[i]
    IN  IF quoteCount(joined) % 2 = 0
        THEN joinLines(rawLines, i + 1, << >>, Append(lines, joined))
        ELSE joinLines(rawLines, i + 1, joined, lines)

\* parseCSVData taking every physical line as a row
parseCSVData_perLine(csvText) ==
  LET lines == split(csvText, LF)
  IN  [k \in 1..Len(lines) |-> parseCSVLine(lines[k])]

parseCSVData(csvText) ==
  LET lines == joinLines(split(csvText, LF), 1, << >>, << >>)
  IN  [k \in 1..Len(lines) |-> parseCSVLine(lines[k])]

----------------------------------------------------------------------------
(* src/lib/soldOutData.ts: its own parseCSVLine *)

RECURSIVE soScanLine(_, _, _, _, _)
soScanLine(line, i, current, inQuotes, fields) ==
  IF i > Len(line)
  THEN IF current # << >> THEN Append(fields, trim(current)) ELSE fields
  ELSE
    LET char == line[i] IN
    IF char = QUOTE
    THEN IF inQuotes /\ i + 1 <= Len(line) /\ line[i + 1] = QUOTE
         THEN soScanLine(line, i + 2, Append(current, QUOTE), inQuotes, fields)
         ELSE soScanLine(line, i + 1, current, ~inQuotes, fields)
    ELSE IF char = COMMA /\ ~inQuotes
    THEN soScanLine(line, i + 1, << >>, inQuotes, Append(fields, trim(current)))
    ELSE IF char = CR /\ ~inQuotes
    THEN soScanLine(line, i + 1, current, inQuotes, fields)
    ELSE IF char = LF /\ ~inQuotes
    THEN IF current # << >> THEN Append(fields, trim(current)) ELSE fields
    ELSE soScanLine(line, i + 1, Append(current, char), inQuotes, fields)

soParseCSVLine(line) == soScanLine(line, 1, << >>, FALSE, << >>)

----------------------------------------------------------------------------
(* src/lib/speakersData.ts: the bundled speakers *)

\* a string literal of the source as text
Lit(s) == IF s = "" THEN << >> ELSE << s >>

FB(name, title, company, image, linkedin) ==
  [name |-> Lit(name), title |-> Lit(title), company |-> Lit(company),
   image |-> Lit(image), linkedin |-> linkedin]

fallbackSpeakers ==
  <<
     FB("Seeram Sambasiva Rao IAS", "Special Secretary (E & ITD) / Chairman,", "Kerala State IT Mission", "/speakers/speaker_1.jpg", undefined),
     FB("Dr.Jayasankar Prasad C", "Director,", "CMD", "/speakers/speaker_15.jpg", <<"https://www.linkedin.com/in/jayasankar-prasad-c-b5459bb">>),
     FB("Anoop Ambika", "CEO,", "Kerala Start-up Mission", "/speakers/speaker_2.jpg", <<"https://www.linkedin.com/in/anoopambika">>),
     FB("Sreekumar V", "Secretary, GTech & Centre Head,", "Tata Elxsi", "/speakers/speaker_3.jpg", <<"https://www.linkedin.com/in/sreekumarv">>),
     FB("Col. Sanjeev Nair (Retd.)", "CEO,", "Technopark", "/speakers/speaker_4.jpg", <<"https://www.linkedin.com/in/sanjeevnair13">>),
     FB("Deepu S Nath", "Managing Director,", "Faya", "/speakers/speaker_5.jpg", <<"https://www.linkedin.com/in/deepusnath">>),
     FB("Raj Gopal R", "Deputy Vice President & Regional Head,", "Federal Bank", "/speakers/speaker_16.jpg", undefined),
     FB("Nisha Gopinath", "Vice President and Head of HR,", "IBM India and South Asia", "/speakers/speaker_6.jpg", <<"https://www.linkedin.com/in/nisha-gopinath-4087651">>),
     FB("Charles Godwin", "HR Leader,", "Zoho Corporation", "/speakers/speaker_7.jpg", <<"https://www.linkedin.com/in/charlesgodwin">>),
     FB("Magical Rafi", "Founder & Chief Mentor,", "Magic of Change", "/speakers/speaker_8.jpg", <<"https://www.linkedin.com/in/mohammedrafinlptrainer">>),
     FB("Saurabh Singh", "Consulting and Capability,", "SHRM India", "/speakers/speaker_9.jpg", <<"https://www.linkedin.com/in/learnsingh">>),
     FB("Karthika Nair S", "Associate Director", "", "/speakers/speaker_13.jpg", undefined),
     FB("Jayan Nair", "Chief People Officer,", "IBS Software", "/speakers/speaker_10.jpg", <<"https://www.linkedin.com/in/jayan-nair-0b11874">>),
     FB("Manoj Elanjickal", "Director - People & Culture,", "H&R Block India", "/speakers/speaker_11.jpg", <<"https://www.linkedin.com/in/manojelanjickal">>),
     FB("Varun Palat", "Deputy Vice President - HR,", "Federal Bank", "/speakers/speaker_12.jpg", <<"https://www.linkedin.com/in/varun-palat-18312912b">>),
     FB("Aditi Radhakrishnan", "Consultant & Coach,", "Mitara Consulting Services", "/speakers/speaker_14.jpg", <<"https://www.linkedin.com/in/aditiradhakrishnan">>),
     FB("Dr. Thomas George K ", "Director,", "LEAD College (Autonomous)", "/speakers/speaker_17.jpg", <<"https://www.linkedin.com/in/thomasgeorgek">>) >>

----------------------------------------------------------------------------
(* The host: window, localStorage, JSON *)

\* "ok":     a browser with a working localStorage
\* "ssr":    no window and no localStorage (server-side rendering)
\* "throws": a window whose localStorage throws on every access
\* "quota":  getItem and removeItem work, setItem throws (quota exceeded)
StorageModes == {"ok", "ssr", "throws", "quota"}

windowDefined(st) == st # "ssr"

\* what localStorage.getItem gives for a key that is not set
NullItem == [kind |-> "null"]
\* an item that is not JSON
Garbage == [kind |-> "garbage"]

JSONstringify(v) == [kind |-> "json", value |-> v]

JSONparse(item) ==
  IF item.kind = "json" THEN [threw |-> FALSE, value |-> item.value]
  ELSE [threw |-> TRUE]

getItem(st, sl) ==
  IF st \in {"ssr", "throws"} THEN [threw |-> TRUE]
  ELSE [threw |-> FALSE, value |-> sl]

removeItem(st, sl) ==
  IF st \in {"ssr", "throws"} THEN [threw |-> TRUE, slot |-> sl]
  ELSE [threw |-> FALSE, slot |-> NullItem]

setItem(st, sl, item) ==
  IF st \in {"ssr", "throws", "quota"} THEN [threw |-> TRUE, slot |-> sl]
  ELSE [threw |-> FALSE, slot |-> item]

----------------------------------------------------------------------------
(* src/lib/speakersData.ts: the cache *)

CACHE_DURATION == 5 * 60 * 1000

\* getCachedData with the freshness comparison inverted (`>` for `<`)
getCachedData_inverted(st, sl, t) ==
  IF ~windowDefined(st) THEN [threw |-> FALSE, hit |-> FALSE, slot |-> sl]
  ELSE
    LET cached == getItem(st, sl)
        parsed == JSONparse(cached.value)
        caught == [threw |-> FALSE, hit |-> FALSE, slot |-> removeItem(st, sl).slot]
    IN  IF cached.threw THEN caught
        ELSE IF cached.value = NullItem
             THEN [threw |-> FALSE, hit |-> FALSE, slot |-> sl]
        ELSE IF parsed.threw THEN caught
        ELSE IF t - parsed.value.timestamp > CACHE_DURATION
             THEN [threw |-> FALSE, hit |-> TRUE, data |-> parsed.value.data, slot |-> sl]
        ELSE [threw |-> FALSE, hit |-> FALSE, slot |-> removeItem(st, sl).slot]

\* getCachedData without the removeItem of the expired branch
getCachedData_noEvict(st, sl, t) ==
  IF ~windowDefined(st) THEN [threw |-> FALSE, hit |-> FALSE, slot |-> sl]
  ELSE
    LET cached == getItem(st, sl)
        parsed == JSONparse(cached.value)
        caught == [threw |-> FALSE, hit |-> FALSE, slot |-> removeItem(st, sl).slot]
    IN  IF cached.threw THEN caught
        ELSE IF cached.value = NullItem
             THEN [threw |-> FALSE, hit |-> FALSE, slot |-> sl]
        ELSE IF parsed.threw THEN caught
        ELSE IF t - parsed.value.timestamp < CACHE_DURATION
             THEN [threw |-> FALSE, hit |-> TRUE, data |-> parsed.value.data, slot |-> sl]
        ELSE [threw |-> FALSE, hit |-> FALSE, slot |-> sl]

\* getCachedData(): threw tells whether an exception leaves the function,
\* hit whether it returns a list (data) rather than null, slot is the item
\* it leaves behind
getCachedData(st, sl, t) ==
  IF ~windowDefined(st) THEN [threw |-> FALSE, hit |-> FALSE, slot |-> sl]
  ELSE
    LET cached == getItem(st, sl)
        parsed == JSONparse(cached.value)
        \* the catch block: removeItem in a try of its own
        caught == [threw |-> FALSE, hit |-> FALSE, slot |-> removeItem(st, sl).slot]
    IN  IF cached.threw THEN caught
        ELSE IF cached.value = NullItem
             THEN [threw |-> FALSE, hit |-> FALSE, slot |-> sl]
        ELSE IF parsed.threw THEN caught
        ELSE IF t - parsed.value.timestamp < CACHE_DURATION
             THEN [threw |-> FALSE, hit |-> TRUE, data |-> parsed.value.data, slot |-> sl]
        ELSE LET rm == removeItem(st, sl)
             IN  IF rm.threw THEN caught
                 ELSE [threw |-> FALSE, hit |-> FALSE, slot |-> rm.slot]

\* what a reader of the slot finds at time t: the cases of getCachedData
slotState(st, sl, t) ==
  IF st \in {"ssr", "throws"} THEN "unavailable"
  ELSE IF sl = NullItem THEN "absent"
  ELSE IF JSONparse(sl).threw THEN "unparsable"
  ELSE IF t - JSONparse(sl).value.timestamp < CACHE_DURATION THEN "fresh"
  ELSE "expired"

\* setCachedData adding the new records to those of the entry in the slot
setCachedData_append(st, sl, data, t) ==
  IF ~windowDefined(st) THEN [threw |-> FALSE, slot |-> sl]
  ELSE
    LET old == IF sl.kind = "json" THEN sl.value.data ELSE << >>
        cacheData == [data |-> old \o data, timestamp |-> t]
        set == setItem(st, sl, JSONstringify(cacheData))
    IN  [threw |-> FALSE, slot |-> set.slot]

\* setCachedData without its try/catch: a failing setItem propagates
setCachedData_noTry(st, sl, data, t) ==
  IF ~windowDefined(st) THEN [threw |-> FALSE, slot |-> sl]
  ELSE
    LET cacheData == [data |-> data, timestamp |-> t]
        set == setItem(st, sl, JSONstringify(cacheData))
    IN  [threw |-> set.threw, slot |-> set.slot]

\* setCachedData(data)
setCachedData(st, sl, data, t) ==
  IF ~windowDefined(st) THEN [threw |-> FALSE, slot |-> sl]
  ELSE
    LET cacheData == [data |-> data, timestamp |-> t]
        set == setItem(st, sl, JSONstringify(cacheData))
    IN  [threw |-> FALSE, slot |-> set.slot]

----------------------------------------------------------------------------
(* src/lib/speakersData.ts: fetchSpeakersFromGoogleSheets *)

SHEETS_CSV_URL == "SHEETS_CSV_URL"
SHEETS_CSV_URL_FALLBACK == "SHEETS_CSV_URL_FALLBACK"

\* row[k] of a JavaScript array (0-based)
cell(row, k) == IF k + 1 <= Len(row) THEN row[k + 1] ELSE undefined

\* the while loop that pads a row to 5 cells
padRow(row) == row \o [k \in 1..(5 - Len(row)) |-> << >>]

\* mapRow demanding 5 cells (`row.length < 5`)
mapRow_lt5(row) ==
  IF Len(row) < 5 THEN [isNull |-> TRUE]
  ELSE
    LET name == trim(cell(row, 0))
        title == trim(cell(row, 1))
        company == trim(cell(row, 2))
        image == trim(cell(row, 3))
        linkedin == trim(cell(row, 4))
    IN  IF name = << >> \/ title = << >> \/ image = << >>
        THEN [isNull |-> TRUE]
        ELSE [isNull |-> FALSE,
              speaker |-> [name |-> name, title |-> title, company |-> company,
                           image |-> image,
                           linkedin |-> IF linkedin # << >> THEN linkedin ELSE undefined]]

\* mapRow validating name and title only (`!name || !title`)
mapRow_noImageCheck(row) ==
  IF Len(row) < 4 THEN [isNull |-> TRUE]
  ELSE
    LET padded == padRow(row)
        name == trim(cell(padded, 0))
        title == trim(cell(padded, 1))
        company == trim(cell(padded, 2))
        image == trim(cell(padded, 3))
        linkedin == trim(cell(padded, 4))
    IN  IF name = << >> \/ title = << >>
        THEN [isNull |-> TRUE]
        ELSE [isNull |-> FALSE,
              speaker |-> [name |-> name, title |-> title, company |-> company,
                           image |-> image,
                           linkedin |-> IF linkedin # << >> THEN linkedin ELSE undefined]]

\* the callback of parsedRows.slice(1).map
mapRow(row) ==
  IF Len(row) < 4 THEN [isNull |-> TRUE]
  ELSE
    LET padded == padRow(row)
        name == trim(cell(padded, 0))
        title == trim(cell(padded, 1))
        company == trim(cell(padded, 2))
        image == trim(cell(padded, 3))
        linkedin == trim(cell(padded, 4))
    IN  IF name = << >> \/ title = << >> \/ image = << >>
        THEN [isNull |-> TRUE]
        ELSE [isNull |-> FALSE,
              speaker |-> [name |-> name,
                           title |-> title,
                           company |-> company,
                           image |-> image,
                           linkedin |-> IF linkedin # << >> THEN linkedin ELSE undefined]]

\* parsedRows.slice(1).map(...).filter(Boolean)
mapRows(parsedRows) ==
  LET dataRows == Tail(parsedRows)
      mapped == [k \in 1..Len(dataRows) |-> mapRow(dataRows[k])]
      kept == SelectSeq(mapped, LAMBDA m : ~m.isNull)
  IN  [k \in 1..Len(kept) |-> kept[k].speaker]

\* processBody without the `speakers.length === 0` branch
processBody_noEmptyCheck(csvText) ==
  IF trim(csvText) = << >> THEN [cache |-> FALSE, speakers |-> fallbackSpeakers]
  ELSE
    LET parsedRows == parseCSVData(csvText) IN
    IF Len(parsedRows) <= 1 THEN [cache |-> FALSE, speakers |-> fallbackSpeakers]
    ELSE [cache |-> TRUE, speakers |-> mapRows(parsedRows)]

\* the try block from `const csvText = await response.text()` on: the list
\* returned and whether setCachedData is called with it
\* processBody storing the bundled speakers when every row was dropped
processBody_cachesFallback(csvText) ==
  IF trim(csvText) = << >> THEN [cache |-> FALSE, speakers |-> fallbackSpeakers]
  ELSE
    LET parsedRows == parseCSVData(csvText) IN
    IF Len(parsedRows) <= 1 THEN [cache |-> FALSE, speakers |-> fallbackSpeakers]
    ELSE
      LET speakers == mapRows(parsedRows) IN
      IF Len(speakers) = 0 THEN [cache |-> TRUE, speakers |-> fallbackSpeakers]
      ELSE [cache |-> TRUE, speakers |-> speakers]

processBody(csvText) ==
  IF trim(csvText) = << >> THEN [cache |-> FALSE, speakers |-> fallbackSpeakers]
  ELSE
    LET parsedRows == parseCSVData(csvText) IN
    IF Len(parsedRows) <= 1 THEN [cache |-> FALSE, speakers |-> fallbackSpeakers]
    ELSE
      LET speakers == mapRows(parsedRows) IN
      IF Len(speakers) = 0 THEN [cache |-> FALSE, speakers |-> fallbackSpeakers]
      ELSE [cache |-> TRUE, speakers |-> speakers]

\* the forced-refresh branch without its removeItem
invalidate_skipped(st, sl) == sl

\* the forced-refresh branch: removeItem behind the window check, errors ignored
invalidate(st, sl) ==
  IF windowDefined(st) THEN removeItem(st, sl).slot ELSE sl

\* the catch block without the look into the slot
recover_fallbackOnly(st, sl) == fallbackSpeakers

\* the catch block: the list returned after a failed fetch
recover(st, sl) ==
  LET cached == getItem(st, sl)
      parsed == JSONparse(cached.value)
  IN  IF cached.threw THEN fallbackSpeakers
      ELSE IF cached.value = NullItem THEN fallbackSpeakers
      ELSE IF parsed.threw THEN fallbackSpeakers
      ELSE parsed.value.data

Pending == [state |-> "pending"]
Rejected == [state |-> "rejected"]
Fulfilled(v) == [state |-> "fulfilled", value |-> v]

----------------------------------------------------------------------------
(* The environment of fetchSpeakersFromGoogleSheets *)

\* the display sections that call fetchSpeakersFromGoogleSheets
Calls == {"c1", "c2"}

\* the clock advances in steps of TickStep up to MaxNow
TickStep == 150000
MaxNow == 300000

\* the documents the endpoint may serve
\* Empty: the empty document
\*   ''
BodyEmpty ==
  << >>

\* HeaderOnly: a header and no data row
\*   'n,t,c,i,l'
BodyHeaderOnly ==
  << "n", COMMA, "t", COMMA, "c", COMMA, "i", COMMA, "l" >>

\* ShortRows: every data row has fewer than 4 cells
\*   'n,t,c,i,l\na,b,c\nd,e'
BodyShortRows ==
  << "n", COMMA, "t", COMMA, "c", COMMA, "i", COMMA, "l", LF, "a", COMMA, "b", COMMA, "c", LF, "d", COMMA, "e" >>

\* Mixed: after the header: a 3-cell row, a 4-cell row with quoted cells, a row without name, a row without image, a row without company
\*   'n,t,c,i,l\na,b,c\n"J, A","C\nG",z,w\n,b,c,d,e\na,b,c, ,e\n a ,b,,d,e'
BodyMixed ==
  << "n", COMMA, "t", COMMA, "c", COMMA, "i", COMMA, "l", LF, "a", COMMA, "b", COMMA, "c", LF, QUOTE, "J", COMMA, SP, "A", QUOTE, COMMA, QUOTE, "C", LF, "G", QUOTE, COMMA, "z", COMMA, "w", LF, COMMA, "b", COMMA, "c", COMMA, "d", COMMA, "e", LF, "a", COMMA, "b", COMMA, "c", COMMA, SP, COMMA, "e", LF, SP, "a", SP, COMMA, "b", COMMA, COMMA, "d", COMMA, "e" >>

\* Other: CR LF line ends and a trailing line break
\*   'n,t,c,i,l\r\nx,y,z,w,v\r\n'
BodyOther ==
  << "n", COMMA, "t", COMMA, "c", COMMA, "i", COMMA, "l", CR, LF, "x", COMMA, "y", COMMA, "z", COMMA, "w", COMMA, "v", CR, LF >>

Bodies == { BodyEmpty, BodyHeaderOnly, BodyShortRows, BodyMixed, BodyOther }

\* outcomes of `await fetch(...)`: a response with ok set, a response with a
\* non-success status, a rejection (network error), the 10 s timer aborting
FetchOutcomes == {"ok", "notok", "error", "abort"}

NoText == << "<none>" >>

\* no parser run is under way
CsvUnused ==
  /\ csvPc = "idle"
  /\ csvCase = [kind |-> "none"]
  /\ csvDoc = << >>
  /\ csvRows = << >>
  /\ csvOut = << >>
  /\ csvRows2 = << >>

Init ==
  /\ storage \in StorageModes
  /\ slot = NullItem
  /\ now = 0
  /\ pc = [c \in Calls |-> "idle"]
  /\ force = [c \in Calls |-> FALSE]
  /\ atStart = [c \in Calls |-> "none"]
  /\ reqLog = [c \in Calls |-> << >>]
  /\ respLog = [c \in Calls |-> << >>]
  /\ body = [c \in Calls |-> NoText]
  /\ result = [c \in Calls |-> Pending]
  /\ soPc = "idle"
  /\ soResp = "none"
  /\ soText = << >>
  /\ soResult = Pending
  /\ CsvUnused

\* A settled promise's continuation (the caller's `await`) is a microtask: it
\* runs before the event loop takes the next task (a network callback, a
\* timer) and before the clock is read again
NoneSettled == \A c \in Calls : pc[c] # "done"

\* The call up to its first await: the cache check or the invalidation, then
\* fetch(SHEETS_CSV_URL)
Start(c, forceRefresh) ==
  /\ pc[c] = "idle"
  /\ force' = [force EXCEPT ![c] = forceRefresh]
  /\ atStart' = [atStart EXCEPT ![c] = slotState(storage, slot, now)]
  /\ respLog' = [respLog EXCEPT ![c] = << >>]
  /\ body' = [body EXCEPT ![c] = NoText]
  /\ LET cachedData == getCachedData(storage, slot, now)
         cleared == invalidate(storage, slot)
     IN  IF ~forceRefresh /\ cachedData.threw
         THEN /\ pc' = [pc EXCEPT ![c] = "done"]
              /\ result' = [result EXCEPT ![c] = Rejected]
              /\ reqLog' = [reqLog EXCEPT ![c] = << >>]
              /\ slot' = cachedData.slot
         ELSE IF ~forceRefresh /\ cachedData.hit
         THEN /\ pc' = [pc EXCEPT ![c] = "done"]
              /\ result' = [result EXCEPT ![c] = Fulfilled(cachedData.data)]
              /\ reqLog' = [reqLog EXCEPT ![c] = << >>]
              /\ slot' = cachedData.slot
         ELSE /\ pc' = [pc EXCEPT ![c] = "fetch1"]
              /\ result' = [result EXCEPT ![c] = Pending]
              /\ reqLog' = [reqLog EXCEPT ![c] = << SHEETS_CSV_URL >>]
              /\ slot' = IF forceRefresh THEN cleared ELSE cachedData.slot
  /\ UNCHANGED << storage, now, soldOutVars, csvVars >>

\* the catch block settles the call
Catch(c) ==
  /\ pc' = [pc EXCEPT ![c] = "done"]
  /\ result' = [result EXCEPT ![c] = Fulfilled(recover(storage, slot))]
  /\ UNCHANGED << slot, reqLog >>

\* Response1 without the second attempt: a non-success status throws at once
Response1_noFallback(c, outcome) ==
  /\ pc[c] = "fetch1"
  /\ NoneSettled
  /\ respLog' = [respLog EXCEPT ![c] = Append(@, outcome)]
  /\ CASE outcome = "ok" ->
            /\ pc' = [pc EXCEPT ![c] = "text"]
            /\ UNCHANGED << slot, reqLog, result >>
       [] OTHER -> Catch(c)
  /\ UNCHANGED << storage, now, force, atStart, body, soldOutVars, csvVars >>

\* `await fetch(SHEETS_CSV_URL, ...)` settles
Response1(c, outcome) ==
  /\ pc[c] = "fetch1"
  /\ NoneSettled
  /\ respLog' = [respLog EXCEPT ![c] = Append(@, outcome)]
  /\ CASE outcome = "ok" ->
            /\ pc' = [pc EXCEPT ![c] = "text"]
            /\ UNCHANGED << slot, reqLog, result >>
       [] outcome = "notok" ->
            /\ pc' = [pc EXCEPT ![c] = "fetch2"]
            /\ reqLog' = [reqLog EXCEPT ![c] = Append(@, SHEETS_CSV_URL_FALLBACK)]
            /\ UNCHANGED << slot, result >>
       [] OTHER -> Catch(c)
  /\ UNCHANGED << storage, now, force, atStart, body, soldOutVars, csvVars >>

\* `await fetch(SHEETS_CSV_URL_FALLBACK, ...)` settles
Response2(c, outcome) ==
  /\ pc[c] = "fetch2"
  /\ NoneSettled
  /\ respLog' = [respLog EXCEPT ![c] = Append(@, outcome)]
  /\ CASE outcome = "ok" ->
            /\ pc' = [pc EXCEPT ![c] = "text"]
            /\ UNCHANGED << slot, reqLog, result >>
       [] OTHER -> Catch(c)
  /\ UNCHANGED << storage, now, force, atStart, body, soldOutVars, csvVars >>

\* `await response.text()` gives csvText: the rest of the try block
Body(c, csvText) ==
  /\ pc[c] = "text"
  /\ NoneSettled
  /\ respLog' = [respLog EXCEPT ![c] = Append(@, "text")]
  /\ body' = [body EXCEPT ![c] = csvText]
  /\ LET out == processBody(csvText)
         set == setCachedData(storage, slot, out.speakers, now)
     IN  /\ pc' = [pc EXCEPT ![c] = "done"]
         /\ IF out.cache /\ set.threw
            THEN /\ result' = [result EXCEPT ![c] = Fulfilled(recover(storage, slot))]
                 /\ slot' = set.slot
            ELSE /\ result' = [result EXCEPT ![c] = Fulfilled(out.speakers)]
                 /\ slot' = IF out.cache THEN set.slot ELSE slot
  /\ UNCHANGED << storage, now, force, atStart, reqLog, soldOutVars, csvVars >>

\* `await response.text()` rejects
BodyError(c) ==
  /\ pc[c] = "text"
  /\ NoneSettled
  /\ respLog' = [respLog EXCEPT ![c] = Append(@, "error")]
  /\ Catch(c)
  /\ UNCHANGED << storage, now, force, atStart, body, soldOutVars, csvVars >>

\* the caller takes the settled value; the section may call again
Return(c) ==
  /\ pc[c] = "done"
  /\ pc' = [pc EXCEPT ![c] = "idle"]
  /\ force' = [force EXCEPT ![c] = FALSE]
  /\ atStart' = [atStart EXCEPT ![c] = "none"]
  /\ reqLog' = [reqLog EXCEPT ![c] = << >>]
  /\ respLog' = [respLog EXCEPT ![c] = << >>]
  /\ body' = [body EXCEPT ![c] = NoText]
  /\ result' = [result EXCEPT ![c] = Pending]
  /\ UNCHANGED << storage, slot, now, soldOutVars, csvVars >>

\* time passes
Tick ==
  /\ NoneSettled
  /\ now + TickStep <= MaxNow
  /\ now' = now + TickStep
  /\ UNCHANGED << storage, slot, pc, force, atStart, reqLog, respLog, body, result, soldOutVars, csvVars >>

\* something else leaves an item that is not JSON under CACHE_KEY
Corrupt ==
  /\ NoneSettled
  /\ storage \in {"ok", "quota"}
  /\ slot # Garbage
  /\ slot' = Garbage
  /\ UNCHANGED << storage, now, pc, force, atStart, reqLog, respLog, body, result, soldOutVars, csvVars >>

\* the user clears the site's storage
ClearStorage ==
  /\ NoneSettled
  /\ storage \in {"ok", "quota"}
  /\ slot # NullItem
  /\ slot' = NullItem
  /\ UNCHANGED << storage, now, pc, force, atStart, reqLog, respLog, body, result, soldOutVars, csvVars >>

Next ==
  \/ \E c \in Calls, forceRefresh \in BOOLEAN : Start(c, forceRefresh)
  \/ \E c \in Calls, outcome \in FetchOutcomes : Response1(c, outcome)
  \/ \E c \in Calls, outcome \in FetchOutcomes : Response2(c, outcome)
  \/ \E c \in Calls, csvText \in Bodies : Body(c, csvText)
  \/ \E c \in Calls : BodyError(c)
  \/ \E c \in Calls : Return(c)
  \/ Tick
  \/ Corrupt
  \/ ClearStorage

Spec == Init /\ [][Next]_vars

\* Two sections calling without coordination in a browser with a working,
\* initially empty localStorage that nothing else writes
RaceInit ==
  /\ Init
  /\ storage = "ok"

RaceNext ==
  \/ \E c \in Calls, forceRefresh \in BOOLEAN : Start(c, forceRefresh)
  \/ \E c \in Calls, outcome \in FetchOutcomes : Response1(c, outcome)
  \/ \E c \in Calls, outcome \in FetchOutcomes : Response2(c, outcome)
  \/ \E c \in Calls, csvText \in Bodies : Body(c, csvText)
  \/ \E c \in Calls : BodyError(c)
  \/ \E c \in Calls : Return(c)
  \/ Tick

SpecRace == RaceInit /\ [][RaceNext]_vars

\* Calls made one after the other, each begun when no other call is in
\* progress, over a slot that only these calls write
SeqStart(c, forceRefresh) ==
  /\ \A d \in Calls : pc[d] = "idle"
  /\ Start(c, forceRefresh)

SeqNext ==
  \/ \E c \in Calls, forceRefresh \in BOOLEAN : SeqStart(c, forceRefresh)
  \/ \E c \in Calls, outcome \in FetchOutcomes : Response1(c, outcome)
  \/ \E c \in Calls, outcome \in FetchOutcomes : Response2(c, outcome)
  \/ \E c \in Calls, csvText \in Bodies : Body(c, csvText)
  \/ \E c \in Calls : BodyError(c)
  \/ \E c \in Calls : Return(c)
  \/ Tick

SpecSeq == Init /\ [][SeqNext]_vars

----------------------------------------------------------------------------
(* src/lib/soldOutData.ts: fetchSoldOutStatus *)

SOLD_OUT == << "s", "o", "l", "d", SP, "o", "u", "t" >>
TRUE_TOKEN == << "T", "R", "U", "E" >>

\* the callback of headers.findIndex
isSoldOutHeader(header) == trim(toLowerCase(header)) = SOLD_OUT

\* headers.findIndex(...): the 0-based index of the first header with
\* isSoldOutHeader, or -1
findSoldOutColumn(headers) ==
  IF \E k \in 1..Len(headers) : isSoldOutHeader(headers[k])
  THEN (CHOOSE k \in 1..Len(headers) :
          /\ isSoldOutHeader(headers[k])
          /\ \A j \in 1..(k - 1) : ~isSoldOutHeader(headers[j])) - 1
  ELSE -1

\* soldOutOf comparing the cell without toUpperCase
soldOutOf_caseSensitive(csvText) ==
  LET lines == SelectSeq(split(csvText, LF), LAMBDA line : trim(line) # << >>) IN
  IF Len(lines) < 2 THEN [isSoldOut |-> FALSE]
  ELSE
    LET headers == soParseCSVLine(lines[1])
        soldOutColumnIndex == findSoldOutColumn(headers)
    IN  IF soldOutColumnIndex = -1 THEN [isSoldOut |-> FALSE]
        ELSE
          LET dataRow == soParseCSVLine(lines[2])
              picked == cell(dataRow, soldOutColumnIndex)
              soldOutValue == IF picked = undefined THEN undefined ELSE trim(picked)
          IN  [isSoldOut |-> (soldOutValue = TRUE_TOKEN)]

\* the try block from `const csvText = await response.text()` on
soldOutOf(csvText) ==
  LET lines == SelectSeq(split(csvText, LF), LAMBDA line : trim(line) # << >>) IN
  IF Len(lines) < 2 THEN [isSoldOut |-> FALSE]
  ELSE
    LET headers == soParseCSVLine(lines[1])
        soldOutColumnIndex == findSoldOutColumn(headers)
    IN  IF soldOutColumnIndex = -1 THEN [isSoldOut |-> FALSE]
        ELSE
          LET dataRow == soParseCSVLine(lines[2])
              picked == cell(dataRow, soldOutColumnIndex)
              soldOutValue == IF picked = undefined THEN undefined
                              ELSE toUpperCase(trim(picked))
          IN  [isSoldOut |-> (soldOutValue = TRUE_TOKEN)]

\* the physical lines the sold-out documents are made of
SoLines == {
  << >>,
  << SP >>,
  << "x" >>,
  << "s", "o", "l", "d", SP, "o", "u", "t" >>,
  << "S", "o", "l", "d", SP, "O", "u", "t", SP, COMMA, "x" >>,
  << "x", COMMA, "S", "O", "L", "D", SP, "O", "U", "T" >>,
  << "x", COMMA, QUOTE, "s", "o", "l", "d", SP, "o", "u", "t", QUOTE >>,
  << "s", "o", "l", "d", SP, "o", "u", "t", COMMA, "S", "o", "l", "d", SP, "O", "u", "t" >>,
  << "T", "R", "U", "E" >>,
  << "t", "r", "u", "e", CR >>,
  << "x", COMMA, SP, "T", "r", "u", "e", SP >>,
  << QUOTE, "T", "R", "U", "E", QUOTE >>,
  << COMMA, "T", "R", "U", "E" >>,
  << "F", "A", "L", "S", "E", COMMA, "T", "R", "U", "E" >>,
  << "x", COMMA >>,
  << QUOTE, "x" >>
}

\* a document has at most SoMaxLines lines, joined by line feeds
SoMaxLines == 3

RECURSIVE joinWith(_, _)
joinWith(ls, sep) ==
  IF ls = << >> THEN << >>
  ELSE IF Len(ls) = 1 THEN ls[1]
  ELSE ls[1] \o << sep >> \o joinWith(Tail(ls), sep)

SoDocs ==
  { joinWith(ls, LF) : ls \in UNION { [1..n -> SoLines] : n \in 0..SoMaxLines } }

SoFetchOutcomes == {"ok", "notok", "error"}

SoInit ==
  /\ storage = "ok"
  /\ slot = NullItem
  /\ now = 0
  /\ pc = [c \in Calls |-> "idle"]
  /\ force = [c \in Calls |-> FALSE]
  /\ atStart = [c \in Calls |-> "none"]
  /\ reqLog = [c \in Calls |-> << >>]
  /\ respLog = [c \in Calls |-> << >>]
  /\ body = [c \in Calls |-> NoText]
  /\ result = [c \in Calls |-> Pending]
  /\ soPc = "idle"
  /\ soResp = "none"
  /\ soText \in SoDocs
  /\ soResult = Pending
  /\ CsvUnused

\* the call up to `await fetch(SHEETS_CSV_URL, ...)`
SoStart ==
  /\ soPc = "idle"
  /\ soPc' = "fetch"
  /\ UNCHANGED << soResp, soText, soResult, speakerVars, csvVars >>

\* `await fetch(...)` settles
SoResponse(outcome) ==
  /\ soPc = "fetch"
  /\ soResp' = outcome
  /\ IF outcome = "ok"
     THEN /\ soPc' = "text"
          /\ UNCHANGED soResult
     ELSE /\ soPc' = "done"
          /\ soResult' = Fulfilled([isSoldOut |-> FALSE])
  /\ UNCHANGED << soText, speakerVars, csvVars >>

\* `await response.text()` gives soText: the rest of the try block
SoBody ==
  /\ soPc = "text"
  /\ soResp' = "text"
  /\ soPc' = "done"
  /\ soResult' = Fulfilled(soldOutOf(soText))
  /\ UNCHANGED << soText, speakerVars, csvVars >>

\* `await response.text()` rejects: the catch block
SoBodyError ==
  /\ soPc = "text"
  /\ soResp' = "texterror"
  /\ soPc' = "done"
  /\ soResult' = Fulfilled([isSoldOut |-> FALSE])
  /\ UNCHANGED << soText, speakerVars, csvVars >>

SoNext ==
  \/ SoStart
  \/ \E outcome \in SoFetchOutcomes : SoResponse(outcome)
  \/ SoBody
  \/ SoBodyError

SpecSoldOut == SoInit /\ [][SoNext]_vars

----------------------------------------------------------------------------
(* src/lib/speakersData.ts: runs of parseCSVData on bounded documents *)

\* raw documents: every text over CsvAlphabet of at most CsvMaxLen characters
CsvAlphabet == {"a", COMMA, QUOTE, LF, CR}
CsvMaxLen == 5

RawDocs == UNION { [1..n -> CsvAlphabet] : n \in 0..CsvMaxLen }

\* documents around one quoted field: the field's content is at most
\* FieldMaxLen tokens, ESCQ being an escaped quote (two quote characters)
ESCQ == "qq"
FieldTokens == {"a", COMMA, LF, CR, ESCQ}
FieldMaxLen == 3

FieldContents == UNION { [1..n -> FieldTokens] : n \in 0..FieldMaxLen }

\* the content as it stands between the enclosing quotes
RECURSIVE fieldText(_)
fieldText(content) ==
  IF content = << >> THEN << >>
  ELSE (IF Head(content) = ESCQ THEN << QUOTE, QUOTE >> ELSE << Head(content) >>)
         \o fieldText(Tail(content))

\* the document of a case: an optional first row `a`, an optional cell `a`
\* before the quoted field and an optional cell `a` after it
fieldDoc(case) ==
  (IF case.header THEN << "a", LF >> ELSE << >>)
    \o (IF case.lead THEN << "a", COMMA >> ELSE << >>)
    \o << QUOTE >> \o fieldText(case.content) \o << QUOTE >>
    \o (IF case.trail THEN << COMMA, "a" >> ELSE << >>)

FieldCases ==
  [kind : {"field"}, content : FieldContents,
   header : BOOLEAN, lead : BOOLEAN, trail : BOOLEAN]

\* rows written out with every cell quoted and its quotes doubled, cells
\* joined by commas and rows by line feeds
RECURSIVE doubleQuotes(_)
doubleQuotes(s) ==
  IF s = << >> THEN << >>
  ELSE (IF Head(s) = QUOTE THEN << QUOTE, QUOTE >> ELSE << Head(s) >>)
         \o doubleQuotes(Tail(s))

writeRow(row) ==
  joinWith([k \in 1..Len(row) |-> << QUOTE >> \o doubleQuotes(row[k]) \o << QUOTE >>],
           COMMA)

\* rows joined by line feeds; a row's text may itself be empty
RECURSIVE writeRows(_)
writeRows(rows) ==
  IF rows = << >> THEN << >>
  ELSE IF Len(rows) = 1 THEN writeRow(rows[1])
  ELSE writeRow(rows[1]) \o << LF >> \o writeRows(Tail(rows))

CsvInit ==
  /\ storage = "ok"
  /\ slot = NullItem
  /\ now = 0
  /\ pc = [c \in Calls |-> "idle"]
  /\ force = [c \in Calls |-> FALSE]
  /\ atStart = [c \in Calls |-> "none"]
  /\ reqLog = [c \in Calls |-> << >>]
  /\ respLog = [c \in Calls |-> << >>]
  /\ body = [c \in Calls |-> NoText]
  /\ result = [c \in Calls |-> Pending]
  /\ soPc = "idle"
  /\ soResp = "none"
  /\ soText = << >>
  /\ soResult = Pending
  /\ csvPc = "idle"
  /\ \/ csvCase = [kind |-> "raw"] /\ csvDoc \in RawDocs
     \/ csvCase \in FieldCases /\ csvDoc = fieldDoc(csvCase)
  /\ csvRows = << >>
  /\ csvOut = << >>
  /\ csvRows2 = << >>

\* parseCSVData(csvDoc)
CsvParse ==
  /\ csvPc = "idle"
  /\ csvPc' = "parsed"
  /\ csvRows' = parseCSVData(csvDoc)
  /\ UNCHANGED << csvCase, csvDoc, csvOut, csvRows2, speakerVars, soldOutVars >>

\* the rows are written out and parseCSVData is applied to the text
CsvReparse ==
  /\ csvPc = "parsed"
  /\ csvPc' = "reparsed"
  /\ csvOut' = writeRows(csvRows)
  /\ csvRows2' = parseCSVData(writeRows(csvRows))
  /\ UNCHANGED << csvCase, csvDoc, csvRows, speakerVars, soldOutVars >>

CsvNext ==
  \/ CsvParse
  \/ CsvReparse

SpecCSV == CsvInit /\ [][CsvNext]_vars

----------------------------------------------------------------------------
(* Properties of fetchSpeakersFromGoogleSheets, checked under Spec *)

\* the call's awaits ended in a failed retrieval: a rejection or an abort, or
\* a non-success status on both attempts
FetchFailed(c) ==
  /\ respLog[c] # << >>
  /\ \/ respLog[c][Len(respLog[c])] \in {"error", "abort"}
     \/ respLog[c] = << "notok", "notok" >>

\* C1: fetchSpeakersFromGoogleSheets never rejects, and whenever it has
\* settled it has settled with a non-empty list, whatever forceRefresh, the
\* slot, the storage and the network did.
C1_NeverThrowsNeverEmpty ==
  \A c \in Calls :
    /\ result[c] # Rejected
    /\ pc[c] = "done" =>
         /\ result[c].state = "fulfilled"
         /\ Len(result[c].value) > 0

\* a call that found an unparsable slot, got a document whose rows were all
\* dropped, and settled
C1_Witness ==
  \E c \in Calls :
    /\ pc[c] = "done"
    /\ atStart[c] = "unparsable"
    /\ body[c] = BodyShortRows
    /\ result[c].state = "fulfilled"

\* C2: a non-forced call that begins while the slot holds an entry (R, t)
\* stored by a call, with now - t below 5 minutes, settles at once with
\* exactly R, issues no request and leaves the entry in place.
C2_FreshEntryServed ==
  [][\A c \in Calls :
       ( /\ pc[c] = "idle" /\ pc'[c] # "idle" /\ ~force'[c]
         /\ slot.kind = "json"
         /\ now - slot.value.timestamp < 5 * 60 * 1000 )
       => ( /\ pc'[c] = "done"
            /\ result'[c] = Fulfilled(slot.value.data)
            /\ reqLog'[c] = << >>
            /\ slot' = slot )]_vars

\* a later call (the clock has moved since the entry was stored) served
\* from the entry without a request
C2_Witness ==
  \E c \in Calls :
    /\ pc[c] = "done" /\ ~force[c] /\ atStart[c] = "fresh"
    /\ reqLog[c] = << >>
    /\ slot.kind = "json"
    /\ now > slot.value.timestamp
    /\ result[c] = Fulfilled(slot.value.data)

\* C3: a non-forced call settles from the cache only if the slot held an
\* entry younger than 5 minutes, and then with that entry's list; when the
\* entry's age is 5 minutes or more the call removes it from the slot and goes
\* on to the network.
C3_ReadOnlyFreshAndEvict ==
  [][\A c \in Calls :
       ( pc[c] = "idle" /\ pc'[c] # "idle" /\ ~force'[c] )
       => ( /\ pc'[c] = "done" =>
                 /\ slot.kind = "json"
                 /\ now - slot.value.timestamp < 5 * 60 * 1000
                 /\ result'[c] = Fulfilled(slot.value.data)
            /\ ( slot.kind = "json" /\ now - slot.value.timestamp >= 5 * 60 * 1000 )
                 => ( /\ pc'[c] = "fetch1"
                      /\ reqLog'[c] = << SHEETS_CSV_URL >>
                      /\ slot' = NullItem ) )]_vars

\* a non-forced call that found an expired entry is waiting for the primary
\* response and the slot is empty
C3_Witness ==
  \E c \in Calls :
    /\ pc[c] = "fetch1" /\ ~force[c] /\ atStart[c] = "expired"
    /\ slot = NullItem

\* C4: a forced call leaves the slot empty and requests the primary URL
\* before its first await, also when the slot held a fresh entry, and a forced
\* call never settles without having issued a request.
C4_ForcedAlwaysFetches ==
  [][\A c \in Calls :
       /\ ( pc[c] = "idle" /\ pc'[c] # "idle" /\ force'[c] )
            => ( /\ pc'[c] = "fetch1"
                 /\ reqLog'[c] = << SHEETS_CSV_URL >>
                 /\ slot' = NullItem )
       /\ ( force'[c] /\ pc'[c] = "done" )
            => ( Len(reqLog'[c]) >= 1 /\ reqLog'[c][1] = SHEETS_CSV_URL )]_vars

\* a forced call that began on a fresh entry has removed it and settled
\* after a request
C4_Witness ==
  \E c \in Calls :
    /\ pc[c] = "done" /\ force[c] /\ atStart[c] = "fresh"
    /\ Len(reqLog[c]) >= 1
    /\ \A d \in Calls \ {c} : pc[d] = "idle"
    /\ slot = NullItem

\* C5: when a call's retrieval fails it settles with the records of the entry
\* the slot holds at that moment, whatever the entry's age, and with the
\* bundled speakers only when the slot holds no readable entry.
C5_FailureServesEntry ==
  [][\A c \in Calls :
       ( pc[c] \in {"fetch1", "fetch2", "text"} /\ pc'[c] = "done" /\ FetchFailed(c)' )
       => result'[c] = Fulfilled(IF slot.kind = "json" THEN slot.value.data
                                 ELSE fallbackSpeakers)]_vars

\* a failed call has settled with the records of an entry that is past the
\* freshness window
C5_Witness ==
  \E c \in Calls :
    /\ pc[c] = "done" /\ FetchFailed(c)
    /\ slot.kind = "json"
    /\ now - slot.value.timestamp >= CACHE_DURATION
    /\ result[c] = Fulfilled(slot.value.data)
    /\ result[c].value # fallbackSpeakers

\* the number of requests of a call to url
Requests(c, url) == Cardinality({k \in 1..Len(reqLog[c]) : reqLog[c][k] = url})

\* C6: a call requests the fallback URL once when the primary response had a
\* non-success status and never otherwise; it issues at most two requests,
\* the primary first; a non-success status on the second attempt ends the
\* retrieval as a failure.
C6_SingleFallbackAttempt ==
  \A c \in Calls :
    /\ Len(reqLog[c]) <= 2
    /\ Requests(c, SHEETS_CSV_URL) <= 1
    /\ reqLog[c] # << >> => reqLog[c][1] = SHEETS_CSV_URL
    /\ Requests(c, SHEETS_CSV_URL_FALLBACK) =
         (IF respLog[c] # << >> /\ respLog[c][1] = "notok" THEN 1 ELSE 0)
    /\ ( Len(respLog[c]) >= 2 /\ respLog[c][1] = "notok" /\ respLog[c][2] = "notok" )
         => ( pc[c] = "done" /\ FetchFailed(c) /\ body[c] = NoText )

\* a call whose two attempts both had a non-success status has settled
C6_Witness ==
  \E c \in Calls :
    /\ pc[c] = "done"
    /\ respLog[c] = << "notok", "notok" >>
    /\ reqLog[c] = << SHEETS_CSV_URL, SHEETS_CSV_URL_FALLBACK >>

\* the call got a document with at least one row after the header
HasDataRows(c) ==
  /\ body[c] # NoText
  /\ trim(body[c]) # << >>
  /\ Len(parseCSVData(body[c])) > 1

DataRows(c) == Tail(parseCSVData(body[c]))

RequiredPresent(row) ==
  /\ trim(row[1]) # << >>
  /\ trim(row[2]) # << >>
  /\ trim(row[4]) # << >>

\* C7: of the data rows, those with fewer than 4 cells give no record and
\* the rows after them are still mapped; a row of exactly 4 cells is mapped
\* like a row of 5 with an empty last cell; when no row gives a record the
\* call settles with the bundled speakers, never with an empty list.
C7_ShortRowsDropped ==
  \A c \in Calls :
    ( pc[c] = "done" /\ HasDataRows(c) ) =>
      LET kept == SelectSeq(DataRows(c),
                            LAMBDA row : Len(row) >= 4 /\ RequiredPresent(row))
          got == result[c].value
      IN  IF kept = << >> THEN got = fallbackSpeakers
          ELSE /\ Len(got) = Len(kept)
               /\ \A k \in 1..Len(kept) :
                    /\ got[k].name = kept[k][1]
                    /\ got[k].image = kept[k][4]
                    /\ Len(kept[k]) = 4 => got[k].linkedin = undefined

\* a settled call whose document has a 3-cell row before a 4-cell row; the
\* 4-cell row gave a record
C7_Witness ==
  \E c \in Calls :
    /\ pc[c] = "done" /\ HasDataRows(c)
    /\ \E i, j \in 1..Len(DataRows(c)) :
         /\ i < j
         /\ Len(DataRows(c)[i]) = 3
         /\ Len(DataRows(c)[j]) = 4
         /\ \E k \in 1..Len(result[c].value) :
              /\ result[c].value[k].name = DataRows(c)[j][1]
              /\ result[c].value[k].linkedin = undefined

\* a record as the mapping may build it
WellFormedSpeaker(r) ==
  /\ r.name # << >> /\ trim(r.name) = r.name
  /\ r.title # << >> /\ trim(r.title) = r.title
  /\ r.image # << >> /\ trim(r.image) = r.image
  /\ r.linkedin # << >>

\* C8: every record mapped from live rows, returned or cached, has
\* non-empty trimmed name, title and image; the rows of 4 cells or more map
\* one to one, in order, to the records exactly when all three are non-empty,
\* with company the (possibly empty) third cell and the contact link absent
\* when the fifth cell is empty or missing.
C8_RequiredFields ==
  /\ slot.kind = "json" =>
       \A k \in 1..Len(slot.value.data) : WellFormedSpeaker(slot.value.data[k])
  /\ \A c \in Calls :
       ( pc[c] = "done" /\ HasDataRows(c) /\ result[c].value # fallbackSpeakers ) =>
         LET wide == SelectSeq(DataRows(c), LAMBDA row : Len(row) >= 4)
             complete == SelectSeq(wide, RequiredPresent)
             got == result[c].value
         IN  /\ Len(got) = Len(complete)
             /\ \A k \in 1..Len(got) :
                  /\ WellFormedSpeaker(got[k])
                  /\ got[k].name = complete[k][1]
                  /\ got[k].title = complete[k][2]
                  /\ got[k].company = complete[k][3]
                  /\ got[k].image = complete[k][4]
                  /\ got[k].linkedin =
                       (IF Len(complete[k]) >= 5 /\ complete[k][5] # << >>
                        THEN complete[k][5] ELSE undefined)

\* a settled call whose document has a row of 4 cells or more without image;
\* its records include one with empty company and one without contact link
C8_Witness ==
  \E c \in Calls :
    /\ pc[c] = "done" /\ HasDataRows(c) /\ result[c].value # fallbackSpeakers
    /\ \E i \in 1..Len(DataRows(c)) :
         Len(DataRows(c)[i]) >= 4 /\ DataRows(c)[i][4] = << >>
    /\ \E k \in 1..Len(result[c].value) : result[c].value[k].company = << >>
    /\ \E k \in 1..Len(result[c].value) : result[c].value[k].linkedin = undefined

\* C10: with a storage that fails, or a slot that does not parse, nothing is
\* thrown; the read gives absence, so a non-forced call goes to the network;
\* a failing write leaves the slot as it was; and the call settles with the
\* records mapped from the document it fetched, or with the bundled speakers.
C10_StorageFailureDegrades ==
  /\ storage # "ok" => slot.kind # "json"
  /\ \A c \in Calls :
       /\ result[c] # Rejected
       /\ ( pc[c] # "idle" /\ ~force[c] /\ atStart[c] \in {"unavailable", "unparsable"} )
            => reqLog[c] # << >>
       /\ ( pc[c] = "done" /\ body[c] # NoText )
            => result[c] = Fulfilled(processBody(body[c]).speakers)
       /\ ( pc[c] = "done" /\ body[c] = NoText /\ storage # "ok" )
            => result[c] = Fulfilled(fallbackSpeakers)

\* setItem throws, and the call has settled with the records it mapped while
\* the slot stayed empty
C10_Witness ==
  \E c \in Calls :
    /\ storage = "quota"
    /\ pc[c] = "done"
    /\ body[c] = BodyMixed
    /\ result[c].value # fallbackSpeakers
    /\ slot = NullItem

----------------------------------------------------------------------------
(* Properties of fetchSoldOutStatus, checked under SpecSoldOut *)

SoNonBlankLines == SelectSeq(split(soText, LF), LAMBDA line : trim(line) # << >>)

NamesSoldOut(h) == toLowerCase(h) = SOLD_OUT

\* the header row has a cell equal to 'sold out' ignoring case, and in the
\* first such column the first data row has a cell equal to 'TRUE' ignoring
\* case and surrounding white space
SoFlagSet ==
  /\ Len(SoNonBlankLines) >= 2
  /\ LET headers == soParseCSVLine(SoNonBlankLines[1])
         dataRow == soParseCSVLine(SoNonBlankLines[2])
     IN  \E i \in 1..Len(headers) :
           /\ NamesSoldOut(headers[i])
           /\ \A j \in 1..(i - 1) : ~NamesSoldOut(headers[j])
           /\ i <= Len(dataRow)
           /\ toUpperCase(trim(dataRow[i])) = TRUE_TOKEN

\* C9: fetchSoldOutStatus never rejects, and it settles with isSoldOut true
\* exactly when the fetch succeeded, the body was read, the document has two
\* non-blank lines, and the first data row's cell under the (first) 'sold out'
\* header is 'TRUE', both ignoring case; everything else gives false.
C9_SoldOutIffTrue ==
  /\ soResult # Rejected
  /\ soPc = "done" =>
       /\ soResult.state = "fulfilled"
       /\ soResult.value.isSoldOut = (soResp = "text" /\ SoFlagSet)

\* settled with true from a lower-case cell in the second column
C9_Witness ==
  /\ soPc = "done"
  /\ soResult = Fulfilled([isSoldOut |-> TRUE])
  /\ Len(soParseCSVLine(SoNonBlankLines[1])) >= 2
  /\ ~NamesSoldOut(soParseCSVLine(SoNonBlankLines[1])[1])
  /\ soParseCSVLine(SoNonBlankLines[2])[2] # TRUE_TOKEN

----------------------------------------------------------------------------
(* Properties of parseCSVData, checked under SpecCSV *)

IsLineBreak(ch) == ch \in {LF, CR}

\* s with every maximal run of line breaks replaced by one space
RECURSIVE spaceForBreaks(_)
spaceForBreaks(s) ==
  IF s = << >> THEN << >>
  ELSE IF IsLineBreak(Head(s))
       THEN IF Len(s) >= 2 /\ IsLineBreak(s[2])
            THEN spaceForBreaks(Tail(s))
            ELSE << SP >> \o spaceForBreaks(Tail(s))
       ELSE << Head(s) >> \o spaceForBreaks(Tail(s))

\* the characters a field's content stands for: ESCQ is one quote
fieldMeaning(content) ==
  [k \in 1..Len(content) |-> IF content[k] = ESCQ THEN QUOTE ELSE content[k]]

HasToken(content, tok) == \E k \in 1..Len(content) : content[k] = tok

\* the row and the cell of the parse where the quoted field of a case lands
FieldRow == IF csvCase.header THEN 2 ELSE 1
FieldCell == IF csvCase.lead THEN 2 ELSE 1

\* C11: a quoted field, whatever commas and line breaks it holds, is one
\* cell of one row: the document has as many rows and the row as many cells
\* as were written; and when the content has no quote, the cell is the
\* content with every run of line breaks turned into one space, trimmed as
\* every cell is.
C11_QuotedFieldOneCell ==
  ( csvPc # "idle" /\ csvCase.kind = "field" ) =>
    /\ Len(csvRows) = FieldRow
    /\ Len(csvRows[FieldRow]) =
         1 + (IF csvCase.lead THEN 1 ELSE 0) + (IF csvCase.trail THEN 1 ELSE 0)
    /\ csvCase.header => csvRows[1] = << << "a" >> >>
    /\ csvCase.lead => csvRows[FieldRow][1] = << "a" >>
    /\ csvCase.trail => csvRows[FieldRow][FieldCell + 1] = << "a" >>
    /\ ~HasToken(csvCase.content, ESCQ) =>
         csvRows[FieldRow][FieldCell] = trim(spaceForBreaks(csvCase.content))

\* a parsed field between two cells, under a first row, whose content has a
\* comma and a line feed between other characters
C11_Witness ==
  /\ csvPc = "parsed" /\ csvCase.kind = "field"
  /\ csvCase.header /\ csvCase.lead /\ csvCase.trail
  /\ csvCase.content = << "a", COMMA, LF >> \/ csvCase.content = << COMMA, LF, "a" >>
  /\ \E k \in 1..Len(csvRows[2][2]) : csvRows[2][2][k] = COMMA
  /\ Len(csvRows[2]) = 3

EscapedQuotes(content) == Cardinality({k \in 1..Len(content) : content[k] = ESCQ})

\* C12: in the cell of a quoted field every escaped quote of the content is
\* one quote character and the enclosing quotes are gone, no quote added or
\* dropped: the cell is the trimmed, break-collapsed meaning of the content,
\* also when the content begins and ends with an escaped quote.
C12_EscapedQuotesDecoded ==
  ( csvPc # "idle" /\ csvCase.kind = "field" ) =>
    /\ quoteCount(csvRows[FieldRow][FieldCell]) = EscapedQuotes(csvCase.content)
    /\ csvRows[FieldRow][FieldCell] =
         trim(spaceForBreaks(fieldMeaning(csvCase.content)))

\* the text from index i on continues a well-formed CSV document (fields
\* either free of quotes or enclosed in quotes with inner quotes doubled, rows
\* ended by LF or CR LF) when the scan is in state st: "start" of a field,
\* "plain" field, "quoted" field, "closing" after a quote inside a quoted
\* field, "cr" after a CR outside quotes
RECURSIVE wellFormedFrom(_, _, _)
wellFormedFrom(s, i, st) ==
  IF i > Len(s) THEN st \in {"start", "plain", "closing"}
  ELSE
    LET ch == s[i] IN
    CASE st = "quoted" ->
           wellFormedFrom(s, i + 1, IF ch = QUOTE THEN "closing" ELSE "quoted")
      [] st = "cr" -> ch = LF /\ wellFormedFrom(s, i + 1, "start")
      [] OTHER ->
           IF ch = QUOTE
           THEN /\ st \in {"start", "closing"}
                /\ wellFormedFrom(s, i + 1, "quoted")
           ELSE IF ch \in {COMMA, LF} THEN wellFormedFrom(s, i + 1, "start")
           ELSE IF ch = CR THEN wellFormedFrom(s, i + 1, "cr")
           ELSE st # "closing" /\ wellFormedFrom(s, i + 1, "plain")

WellFormed(s) == wellFormedFrom(s, 1, "start")

\* C13: for a well-formed document, writing the parsed rows out with every
\* cell quoted and its quotes doubled and parsing that text gives the rows of
\* the first parse, cell for cell.
C13_ReparseSameCells ==
  ( csvPc = "reparsed" /\ WellFormed(csvDoc) ) => csvRows2 = csvRows

\* C14: parseCSVData gives no row for the empty document, and a document
\* that ends with a line feed outside quotes gives the rows of the document
\* without that line feed: the empty last line adds no row.
C14_NoRowForEmptyLine ==
  csvPc # "idle" =>
    /\ csvDoc = << >> => csvRows = << >>
    /\ ( csvDoc # << >> /\ csvDoc[Len(csvDoc)] = LF /\ quoteCount(csvDoc) % 2 = 0 )
         => csvRows = parseCSVData(SubSeq(csvDoc, 1, Len(csvDoc) - 1))

----------------------------------------------------------------------------
(* Properties of overlapping and of consecutive calls *)

\* C15: with two uncoordinated calls, a call that begins on the empty slot
\* issues its own request; the slot is always empty or one entry of a record
\* list and a timestamp; every change of the slot to an entry is one call
\* storing exactly the list it settles with, at the current time; and once an
\* entry is there, a non-forced call beginning within the freshness window
\* settles with the entry's list without a request.
C15_RaceWholeEntries ==
  [][ /\ \/ slot' = NullItem
         \/ /\ slot'.kind = "json"
            /\ DOMAIN slot'.value = {"data", "timestamp"}
            /\ Len(slot'.value.data) > 0
      /\ ( slot' # slot /\ slot' # NullItem ) =>
           \E c \in Calls :
             /\ pc[c] = "text" /\ pc'[c] = "done"
             /\ slot' = JSONstringify([data |-> result'[c].value, timestamp |-> now])
             /\ result'[c].value = processBody(body'[c]).speakers
      /\ \A c \in Calls :
           /\ ( pc[c] = "idle" /\ pc'[c] # "idle" /\ slot = NullItem )
                => ( pc'[c] = "fetch1" /\ reqLog'[c] = << SHEETS_CSV_URL >> )
           /\ ( pc[c] = "idle" /\ pc'[c] # "idle" /\ ~force'[c] /\ slot # NullItem
                /\ now - slot.value.timestamp < 5 * 60 * 1000 )
                => ( /\ pc'[c] = "done"
                     /\ reqLog'[c] = << >>
                     /\ result'[c].value = slot.value.data ) ]_vars

\* both calls began on the empty slot; one has stored its list and settled
\* while the other is still waiting for the network
C15_Witness ==
  \E c, d \in Calls :
    /\ c # d
    /\ atStart[c] = "absent" /\ atStart[d] = "absent"
    /\ pc[c] = "done" /\ body[c] # NoText
    /\ slot.kind = "json" /\ slot.value.data = result[c].value
    /\ pc[d] \in {"fetch1", "fetch2", "text"}
    /\ reqLog[d] # << >>

\* the records the data rows of a document give: one per row of at least 4
\* cells whose name, designation and image are not blank
LiveRecords(csvText) ==
  mapRows(<< << >> >> \o SelectSeq(Tail(parseCSVData(csvText)),
                                   LAMBDA row : Len(row) >= 4 /\ RequiredPresent(row)))

\* C16: an entry in the slot holds a non-empty list that is not the bundled
\* speakers but the records of a non-blank document with data rows that
\* the network can deliver; the slot changes to an entry only in the step where a
\* call receives its document, and the entry's list is the list that call
\* settles with; a call that settles after a failed fetch, or with the
\* bundled speakers (blank or header-only document, all rows dropped), leaves
\* the slot as it was.
C16_OnlyLiveRecordsCached ==
  /\ [] ( slot.kind = "json" =>
            /\ Len(slot.value.data) > 0
            /\ slot.value.data # fallbackSpeakers
            /\ \E csvText \in Bodies :
                 /\ trim(csvText) # << >>
                 /\ Len(parseCSVData(csvText)) > 1
                 /\ slot.value.data = LiveRecords(csvText) )
  /\ [][ /\ ( slot' # slot /\ slot'.kind = "json" ) =>
              \E c \in Calls :
                /\ pc[c] = "text" /\ pc'[c] = "done"
                /\ respLog'[c][Len(respLog'[c])] = "text"
                /\ slot'.value.data = result'[c].value
         /\ \A c \in Calls :
              ( /\ pc[c] \in {"fetch1", "fetch2", "text"}
                /\ pc'[c] = "done"
                /\ \/ FetchFailed(c)'
                   \/ result'[c].value = fallbackSpeakers )
                => slot' = slot ]_vars

\* a call has settled with the bundled speakers on a document whose rows
\* were all dropped, and the slot still holds the entry another call stored
\* while this one was waiting
C16_Witness ==
  \E d \in Calls :
    /\ pc[d] = "done" /\ HasDataRows(d)
    /\ LiveRecords(body[d]) = << >>
    /\ result[d].value = fallbackSpeakers
    /\ atStart[d] = "absent"
    /\ slot.kind = "json"
    /\ slot.value.data # fallbackSpeakers

\* C17: with calls made one after the other over a slot only they write, the
\* slot is empty while a call waits for the network (first request, second
\* request or the document), and a call whose fetch failed settles with the
\* bundled speakers.
C17_EmptySlotAtFetch ==
  \A c \in Calls :
    /\ pc[c] \in {"fetch1", "fetch2", "text"} => slot = NullItem
    /\ ( pc[c] = "done" /\ FetchFailed(c) ) => result[c] = Fulfilled(fallbackSpeakers)

\* a call that began on an expired entry has failed to fetch and settled
\* with the bundled speakers, the entry being gone
C17_Witness ==
  \E c \in Calls :
    /\ atStart[c] = "expired"
    /\ ~force[c]
    /\ pc[c] = "done" /\ FetchFailed(c)
    /\ result[c] = Fulfilled(fallbackSpeakers)
    /\ slot = NullItem

====
